---- MODULE Spec2Model ----
(***************************************************************************)
(* The chat store of the deer-flow web client: the stream merge loop of    *)
(* sendMessage, the Research aggregation of appendMessage/updateMessage,   *)
(* the paper-writing workflow state, the debounced completion check        *)
(* checkAndFetchFinalPaper and the final-paper gateway fetchFinalPaper.    *)
(*                                                                         *)
(* The repository holds two builds of the store:                           *)
(*   "refs"  - src/src/app/chat/components/message-list-view.tsx           *)
(*             (lines 852-1634), completion gated on references_writer;    *)
(*   "paper" - src/src/src/core/store/store.ts, completion gated on the    *)
(*             number of committed paper_writer messages.                  *)
(* The variable `variant` fixes which build a behaviour runs.              *)
(***************************************************************************)
EXTENDS Integers, Sequences, FiniteSets, TLC

\* ------------------------------------------------------------------ bounds
MaxMsgs == 2          \* messages the server creates in an unscripted session
MaxLocal == 2         \* messages the client creates itself (nanoid ids)
MaxContent == 2       \* content deltas the stream writes in one thread
MaxToolCalls == 1     \* tool calls recorded on one message
MaxTimers == 2        \* pending debounce timers
MaxInflight == 2      \* getFinalPaper calls awaiting their response
MaxFetchCalls == 2    \* fetchFinalPaper invocations counted since a clear
MaxSections == 2      \* entries of paperSections
MaxOverlapping == 1   \* other sendMessage calls in progress at once

\* -------------------------------------------------------- value universes
NULL == 0                       \* null / undefined id
NONE == "none"                  \* null / undefined string
Variants == {"refs", "paper"}
StreamAgents ==
  {"planner", "researcher", "reporter",
   "outline_writer", "paper_writer", "references_writer"}
ResearchAgents == {"planner", "researcher", "reporter"}
ToolCallIds == {"t1"}
FinishReasons == {"stop"}
Bodies == {"", "doc"}           \* final_paper field of the service response

VARIABLES
  variant,     \* which build of the store runs
  session,     \* what the server sends in this session (never changes)
  store,       \* the zustand state object
  sending,     \* sendMessage is inside its for-await loop
  messageId,   \* sendMessage's local `messageId` (NULL = undefined)
  timers,      \* pending setTimeout callbacks of checkAndFetchFinalPaper
  inflight,    \* fetchFinalPaper calls suspended at `await getFinalPaper`
  podcasts,    \* listenToPodcast calls suspended at `await generatePodcast`
  fetchCalls,  \* fetchFinalPaper invocations since the artifact was cleared
  overlapping  \* other sendMessage calls in progress on the same store

vars == <<variant, session, store, sending, messageId, timers, inflight,
          podcasts, fetchCalls, overlapping>>

\* ------------------------------------------------------ Map<string, Message>
\* A JS Map keeps insertion order; it is modelled as the sequence of its
\* values in insertion order, each carrying its key in the field id.
NoMsg == [id |-> NULL]

MapHas(map, id) == \E i \in 1..Len(map) : map[i].id = id

MapGet(map, id) ==
  IF MapHas(map, id)
    THEN map[CHOOSE i \in 1..Len(map) : map[i].id = id]
    ELSE NoMsg

MapSet(map, m) ==
  IF MapHas(map, m.id)
    THEN [i \in 1..Len(map) |-> IF map[i].id = m.id THEN m ELSE map[i]]
    ELSE Append(map, m)

\* Map<string, X> whose order is never observed: a function on its key set.
FnSet(f, k, v) == [x \in (DOMAIN f) \cup {k} |-> IF x = k THEN v ELSE f[x]]

Includes(seq, x) == \E i \in 1..Len(seq) : seq[i] = x

\* ------------------------------------------------------------ initial store
InitStore ==
  [responding |-> FALSE,
   messageIds |-> <<>>,
   messages |-> <<>>,
   researchIds |-> <<>>,
   researchPlanIds |-> <<>>,
   researchReportIds |-> <<>>,
   researchActivityIds |-> <<>>,
   ongoingResearchId |-> NULL,
   openResearchId |-> NULL,
   paperSections |-> <<>>,
   paperOutlineId |-> NULL,
   completedPaperId |-> NULL,
   finalPaper |-> NONE,
   finalPaperLoading |-> FALSE,
   finalPaperError |-> NONE]

\* ------------------------------------------------------- store methods
\* an append that puts the new id in front of the list
StoreAppendMessageFront(st, m) ==
  [st EXCEPT !.messageIds = <<m.id>> \o @, !.messages = MapSet(@, m)]

\* an append that stores the message and does not list its id
StoreAppendMessageUnlisted(st, m) ==
  [st EXCEPT !.messages = MapSet(@, m)]

StoreAppendMessage(st, m) ==
  [st EXCEPT !.messageIds = Append(@, m.id), !.messages = MapSet(@, m)]

StoreUpdateMessage(st, m) ==
  [st EXCEPT !.messages = MapSet(@, m)]

\* a batch update that writes only the first message of the batch
StoreUpdateMessagesHead(st, ms) ==
  IF ms = <<>> THEN st ELSE [st EXCEPT !.messages = MapSet(@, Head(ms))]

RECURSIVE StoreUpdateMessages(_, _)
StoreUpdateMessages(st, ms) ==
  IF ms = <<>> THEN st
  ELSE StoreUpdateMessages([st EXCEPT !.messages = MapSet(@, Head(ms))],
                           Tail(ms))

openResearch(st, researchId) == [st EXCEPT !.openResearchId = researchId]

closeResearch(st) == [st EXCEPT !.openResearchId = NULL]

\* a version that also folds the display of the research
setOngoingResearchFolding(st, researchId) ==
  [st EXCEPT !.ongoingResearchId = researchId, !.openResearchId = NULL]

setOngoingResearch(st, researchId) ==
  [st EXCEPT !.ongoingResearchId = researchId]

addPaperSection(st, sectionContent) ==
  [st EXCEPT !.paperSections = Append(@, sectionContent)]

setPaperOutline(st, outlineId) == [st EXCEPT !.paperOutlineId = outlineId]

\* a reset that forgets to drop the sections collected so far
resetPaperStateKeep(st) == [st EXCEPT !.completedPaperId = NULL]

resetPaperState(st) ==
  [st EXCEPT !.paperSections = <<>>, !.completedPaperId = NULL]

\* a clear that also forgets the sections and the outline
clearFinalPaperAll(st) ==
  [st EXCEPT !.finalPaper = NONE, !.finalPaperError = NONE,
             !.finalPaperLoading = FALSE,
             !.paperSections = <<>>, !.paperOutlineId = NULL]

clearFinalPaper(st) ==
  [st EXCEPT !.finalPaper = NONE, !.finalPaperError = NONE,
             !.finalPaperLoading = FALSE]

setResponding(st, value) == [st EXCEPT !.responding = value]

\* ------------------------------------------------------------ store reads
\* a loop that takes every event for the first one of its message
existsMessageNever(st, id) == FALSE

existsMessage(st, id) == Includes(st.messageIds, id)

getMessage(st, id) == MapGet(st.messages, id)

\* a read that never sees the ongoing research
getOngoingResearchIdNone(st) == NULL

getOngoingResearchId(st) == st.ongoingResearchId

HasToolCall(m, toolCallId) ==
  \E i \in 1..Len(m.toolCalls) : m.toolCalls[i].id = toolCallId

\* a result merged into whatever message is newest, not into the owner
findMessageByToolCallIdNewest(st, toolCallId) ==
  IF st.messages = <<>> THEN NoMsg ELSE st.messages[Len(st.messages)]

\* Array.from(messages.values()).reverse().find(...): the last message in
\* insertion order that records the tool call.
findMessageByToolCallId(st, toolCallId) ==
  LET I == {i \in 1..Len(st.messages) : HasToolCall(st.messages[i], toolCallId)}
  IN IF I = {} THEN NoMsg
     ELSE st.messages[CHOOSE i \in I : \A j \in I : j <= i]

\* the history check skipped: every reporter commit ends the research
isPaperWritingWorkflowNever(st) == FALSE

isPaperWritingWorkflow(st) ==
  \E i \in 1..Len(st.messages) :
    st.messages[i].agent \in {"paper_writer", "outline_writer"}

\* ------------------------------------------------- content of a message
\* A message text is the sequence of the deltas it was built from.  The
\* delta "{B}" is the text {"section_content":"B"}; " " is white space.
Trim(content) == SelectSeq(content, LAMBDA d : d # " ")

\* parseJSON(content, {}).section_content: the field of a record that
\* parses, <<>> (undefined) when the text is not such a record.
parseJSON(content) ==
  IF Len(content) = 1 /\ content[1] = "{B}"
    THEN [section_content |-> <<"B">>]
    ELSE [section_content |-> <<>>]

\* number of section indicators matched in an outline text
RECURSIVE CountMarkers(_)
CountMarkers(content) ==
  IF content = <<>> THEN 0
  ELSE (IF Head(content) = "#" THEN 1 ELSE 0) + CountMarkers(Tail(content))

Min(a, b) == IF a < b THEN a ELSE b
Max(a, b) == IF a > b THEN a ELSE b

\* --------------------------------------------------------- mergeMessage
\* a merge that records the finish as one more chunk of the message
mergeMessageRepeating(m, e) ==
  CASE e.type = "content_delta" ->
         [m EXCEPT !.content = Append(@, e.delta),
                   !.contentChunks = Append(@, e.delta)]
    [] e.type = "tool_call_start" ->
         IF HasToolCall(m, e.tool_call_id) THEN m
         ELSE [m EXCEPT !.toolCalls =
                 Append(@, [id |-> e.tool_call_id, result |-> NONE])]
    [] e.type = "tool_call_result" ->
         [m EXCEPT !.toolCalls =
            [i \in 1..Len(@) |->
               IF @[i].id = e.tool_call_id
                 THEN [@[i] EXCEPT !.result = "r"] ELSE @[i]]]
    [] e.type = "finish" ->
         [m EXCEPT !.isStreaming = FALSE,
                   !.contentChunks = Append(@, e.finish_reason),
                   !.finishReason =
                     IF e.finish_reason # NONE THEN e.finish_reason ELSE @]
    [] OTHER -> m

\* Folds one stream event into a copy of the message.
mergeMessage(m, e) ==
  CASE e.type = "content_delta" ->
         [m EXCEPT !.content = Append(@, e.delta),
                   !.contentChunks = Append(@, e.delta)]
    [] e.type = "tool_call_start" ->
         IF HasToolCall(m, e.tool_call_id) THEN m
         ELSE [m EXCEPT !.toolCalls =
                 Append(@, [id |-> e.tool_call_id, result |-> NONE])]
    [] e.type = "tool_call_result" ->
         [m EXCEPT !.toolCalls =
            [i \in 1..Len(@) |->
               IF @[i].id = e.tool_call_id
                 THEN [@[i] EXCEPT !.result = "r"] ELSE @[i]]]
    [] e.type = "finish" ->
         [m EXCEPT !.isStreaming = FALSE,
                   !.finishReason =
                     IF e.finish_reason # NONE THEN e.finish_reason ELSE @]
    [] OTHER -> m

\* ------------------------------------------------- world of one handler
\* A handler runs to completion on the event loop.  Its world is the store,
\* the number of debounce timers it has scheduled so far, and whether an
\* exception is propagating (threw); every step is skipped once threw.
World(st, t) == [st |-> st, timers |-> t, threw |-> FALSE]

InResearchTags(v, agent) ==
  \/ agent \in {"coder", "thinking", "reporter", "researcher"}
  \/ v = "refs" /\
     agent \in {"outline_writer", "paper_writer", "references_writer"}

PlannerAt(st) ==
  {i \in 1..Len(st.messageIds) :
     /\ getMessage(st, st.messageIds[i]).id # NULL
     /\ getMessage(st, st.messageIds[i]).agent = "planner"}

\* a forward scan: the oldest planner message, not the nearest
FindPlannerFirst(st) ==
  LET I == PlannerAt(st)
  IN IF I = {} THEN NULL
     ELSE st.messageIds[CHOOSE i \in I : \A j \in I : i <= j]

\* the reverse scan of messageIds for the nearest planner message
FindPlanner(st) ==
  LET I == PlannerAt(st)
  IN IF I = {} THEN NULL
     ELSE st.messageIds[CHOOSE i \in I : \A j \in I : j <= i]

\* a tail that degrades: with no planner found it links the research to
\* no plan instead of failing
linkResearchDegrading(w, researchId, planId) ==
  [w EXCEPT
     !.st.ongoingResearchId = researchId,
     !.st.researchIds = Append(@, researchId),
     !.st.researchPlanIds = FnSet(@, researchId, planId),
     !.st.researchActivityIds =
        FnSet(@, researchId, <<planId, researchId>>)]

\* the tail of appendResearch once the scan has ended with planId:
\* planMessage!.id dereferences undefined when no planner was found, and
\* the TypeError leaves the store untouched.
linkResearch(w, researchId, planId) ==
  IF planId = NULL THEN [w EXCEPT !.threw = TRUE]
  ELSE [w EXCEPT
          !.st.ongoingResearchId = researchId,
          !.st.researchIds = Append(@, researchId),
          !.st.researchPlanIds = FnSet(@, researchId, planId),
          !.st.researchActivityIds =
             FnSet(@, researchId, <<planId, researchId>>)]

appendResearch(w, researchId) ==
  linkResearch(w, researchId, FindPlanner(w.st))

\* an attachment that does not look for the id in the list
addActivityAgain(st, researchId, m) ==
  [st EXCEPT
     !.researchActivityIds = FnSet(@, researchId, Append(@[researchId], m.id)),
     !.researchReportIds =
        IF m.agent = "reporter" THEN FnSet(@, researchId, m.id) ELSE @]

\* an attachment that keeps the report a research already has
addActivityFirstReport(st, researchId, m) ==
  [st EXCEPT
     !.researchActivityIds =
        IF Includes(@[researchId], m.id) THEN @
        ELSE FnSet(@, researchId, Append(@[researchId], m.id)),
     !.researchReportIds =
        IF m.agent = "reporter" /\ researchId \notin DOMAIN @
          THEN FnSet(@, researchId, m.id) ELSE @]

\* the two writes of appendResearchActivity for the research researchId
addActivity(st, researchId, m) ==
  [st EXCEPT
     !.researchActivityIds =
        IF Includes(@[researchId], m.id) THEN @
        ELSE FnSet(@, researchId, Append(@[researchId], m.id)),
     !.researchReportIds =
        IF m.agent = "reporter" THEN FnSet(@, researchId, m.id) ELSE @]

appendResearchActivity(w, m) ==
  IF getOngoingResearchId(w.st) = NULL THEN w
  ELSE [w EXCEPT !.st = addActivity(@, getOngoingResearchId(w.st), m)]

\* setTimeout(() => ..., delay): one more pending callback
checkAndFetchFinalPaper(w) == [w EXCEPT !.timers = @ + 1]

\* the section extraction shared by appendMessage and updateMessage
ExtractSection(st, m) ==
  IF parseJSON(m.content).section_content # <<>>
    THEN addPaperSection(st, parseJSON(m.content).section_content)
  ELSE IF Trim(m.content) # <<>>
    THEN addPaperSection(st, m.content)
  ELSE st

\* the paper-writing part common to appendMessage and updateMessage, one
\* operator per if statement
OutlineStep(w, m) ==
  IF m.agent = "outline_writer" /\ ~m.isStreaming
    THEN [w EXCEPT !.st = resetPaperState(setPaperOutline(@, m.id))]
    ELSE w

\* store.ts re-evaluates completion after every section, message-list-view
\* only after the references
SectionStep(w, m, v) ==
  IF m.agent = "paper_writer" /\ ~m.isStreaming
    THEN IF v = "paper"
           THEN checkAndFetchFinalPaper([w EXCEPT !.st = ExtractSection(@, m)])
           ELSE [w EXCEPT !.st = ExtractSection(@, m)]
    ELSE w

ReferencesStep(w, m, v) ==
  IF v = "refs" /\ m.agent = "references_writer" /\ ~m.isStreaming
    THEN checkAndFetchFinalPaper(w)
    ELSE w

PaperWorkflow(w, m, v) ==
  ReferencesStep(SectionStep(OutlineStep(w, m), m, v), m, v)

\* a start that leaves the display as it was
OpenNewClosed(w, id) == w

\* openResearch(id), skipped when appendResearch(id) threw
OpenNew(w, id) ==
  IF w.threw THEN w ELSE [w EXCEPT !.st = openResearch(@, id)]

ResearchStep(w, m) ==
  IF getOngoingResearchId(w.st) = NULL
    THEN OpenNew(appendResearch(w, m.id), m.id)
    ELSE w

ActivityStep(w, m) ==
  IF w.threw THEN w ELSE appendResearchActivity(w, m)

StoreStep(w, m, v) ==
  IF w.threw THEN w
  ELSE [PaperWorkflow(w, m, v) EXCEPT !.st = StoreAppendMessage(@, m)]

appendMessage(w, m, v) ==
  StoreStep(IF InResearchTags(v, m.agent)
              THEN ActivityStep(ResearchStep(w, m), m)
              ELSE w,
            m, v)

ReporterStep(w, m) ==
  IF /\ getOngoingResearchId(w.st) # NULL
     /\ m.agent = "reporter"
     /\ ~m.isStreaming
     /\ ~isPaperWritingWorkflow(w.st)
    THEN [w EXCEPT !.st = setOngoingResearch(@, NULL)]
    ELSE w

updateMessage(w, m, v) ==
  [PaperWorkflow(ReporterStep(w, m), m, v)
     EXCEPT !.st = StoreUpdateMessage(@, m)]

\* ------------------------------------------------------------ sendMessage
\* the message synthesized for the first event of an unknown id
NewMessage(e) ==
  [id |-> e.id, agent |-> e.agent, role |-> "assistant",
   content |-> <<>>, contentChunks |-> <<>>, toolCalls |-> <<>>,
   isStreaming |-> TRUE, finishReason |-> NONE]

\* a message created by the client itself (isStreaming undefined is falsy)
LocalMessage(id, role, agent, content, streaming) ==
  [id |-> id, agent |-> agent, role |-> role,
   content |-> content, contentChunks |-> <<>>, toolCalls |-> <<>>,
   isStreaming |-> streaming, finishReason |-> NONE]

\* nanoid(), and the id of a message the server has not yet mentioned
FreshId(st) == Len(st.messageIds) + 1

\* message ??= getMessage(messageId)
OrStored(st, message, id) ==
  IF message.id # NULL THEN message ELSE getMessage(st, id)

\* if (message) { message = mergeMessage(message, event); updateMessage }
MergeInto(w, message, e, v) ==
  IF w.threw \/ message.id = NULL THEN w
  ELSE updateMessage(w, mergeMessage(message, e), v)

\* the body of the for-await loop for one event
HandleEvent(w, e, v) ==
  IF e.type = "tool_call_result"
    THEN MergeInto(w,
           OrStored(w.st, findMessageByToolCallId(w.st, e.tool_call_id),
                    e.id),
           e, v)
  ELSE IF ~existsMessage(w.st, e.id)
    THEN MergeInto(appendMessage(w, NewMessage(e), v), NewMessage(e), e, v)
  ELSE MergeInto(w, getMessage(w.st, e.id), e, v)

\* a finalisation that discards what the partial message had received
FinaliseRollback(st, message) ==
  IF message.id # NULL /\ message.isStreaming
    THEN StoreUpdateMessage(st, [message EXCEPT !.isStreaming = FALSE,
                                                !.content = <<>>,
                                                !.contentChunks = <<>>])
    ELSE st

\* message.isStreaming = false; useStore.getState().updateMessage(message)
Finalise(st, message) ==
  IF message.id # NULL /\ message.isStreaming
    THEN StoreUpdateMessage(st, [message EXCEPT !.isStreaming = FALSE])
    ELSE st

\* the catch block followed by the finally block
FailurePath(st, mid) ==
  setResponding(
    setOngoingResearch(
      IF mid # NULL THEN Finalise(st, getMessage(st, mid)) ELSE st, NULL),
    FALSE)

\* ------------------------------------------------------------- sessions
\* The environment of a session: which build runs, what the server sends
\* and what the user and the transport do.  An unscripted session (cast
\* empty) creates at most MaxMsgs messages, each tagged with any agent of
\* `agents` and writing any text of that agent; a scripted one creates the
\* messages of `cast`, in that order, each with its own text.  In both, the
\* events of the created messages arrive in any order, any number of times.
\* env lists what else may happen: "prompt" (the user sends text, not only
\* replays), "fail" (the transport fails mid-stream), "clear"
\* (clearFinalPaper is called).
Free(v, agents, env) ==
  [variant |-> v, agents |-> agents, cast |-> <<>>, env |-> env]

Scripted(v, cast, env) ==
  [variant |-> v, agents |-> {}, cast |-> cast, env |-> env]

\* a message of a cast: its agent and the delta its text arrives in
Writes(agent, text) == [agent |-> agent, text |-> text]

Silent(agent) == Writes(agent, NONE)

ResearchSessions ==
  UNION {
    {Scripted(v, <<Silent("planner"), Silent("researcher"),
                   Writes("reporter", "A")>>, {"fail"}),
     Scripted(v, <<Silent("planner"), Writes("reporter", "A"),
                   Silent("researcher")>>, {"fail"}),
     Scripted(v, <<Silent("planner"), Silent("planner"),
                   Silent("researcher")>>, {})}
    : v \in Variants}
  \cup
  {Free("refs", ResearchAgents, {"fail"}),
   Scripted("refs", <<Silent("planner"), Silent("researcher"),
                      Silent("outline_writer")>>, {}),
   Scripted("refs", <<Silent("planner"), Silent("reporter"),
                      Silent("reporter")>>, {})}

PaperSessions ==
  UNION {
    {Scripted(v, <<Silent("planner"), Writes("reporter", "A"),
                   Silent("outline_writer")>>, {})}
    : v \in Variants}
  \cup
  {Scripted("refs", <<Silent("planner"), Writes("paper_writer", "A"),
                      Silent("references_writer")>>, {}),
   Scripted("refs", <<Silent("planner"), Silent("outline_writer"),
                      Writes("paper_writer", "A"), Silent("outline_writer"),
                      Writes("paper_writer", "{B}")>>, {}),
   Scripted("paper", <<Writes("outline_writer", "#"),
                       Writes("paper_writer", "A"),
                       Writes("paper_writer", "{B}")>>, {})}

AllSessions ==
  UNION {{Scripted(v, <<Silent("planner"), Writes("reporter", "A")>>,
                   {"prompt"})}
         : v \in Variants}
  \cup
  {Free("paper", ResearchAgents, {"fail"}),
   Scripted("refs", <<Silent("planner"), Writes("paper_writer", "A"),
                      Silent("references_writer")>>, {}),
   Scripted("paper", <<Writes("outline_writer", "#"),
                       Writes("paper_writer", "A"),
                       Writes("paper_writer", "{B}")>>, {"clear"})}

\* one research per build, for the operations the views call on the store
StoreSessions ==
  {Scripted(v, <<Silent("planner"), Writes("reporter", "A")>>, {})
     : v \in Variants}

\* threads that complete a paper and whose artifact may be cleared
GatewaySessions ==
  {Scripted("refs", <<Silent("planner"), Writes("paper_writer", "A"),
                      Silent("references_writer")>>, {"clear"}),
   Scripted("paper", <<Writes("outline_writer", "#"),
                       Silent("paper_writer"),
                       Silent("paper_writer")>>, {"clear"})}

IsStreamMessage(m) == m.agent \in StreamAgents

\* the positions of the stored messages that came from the stream
StreamAt(st) ==
  {i \in 1..Len(st.messages) : IsStreamMessage(st.messages[i])}

NumStream(st) == Cardinality(StreamAt(st))

NumLocal(st) == Len(st.messageIds) - NumStream(st)

\* the agent tags a message created next may carry
NewAgents(st, ses) ==
  IF ses.cast # <<>>
    THEN IF NumStream(st) < Len(ses.cast)
           THEN {ses.cast[NumStream(st) + 1].agent} ELSE {}
    ELSE IF NumStream(st) < MaxMsgs THEN ses.agents ELSE {}

\* the number of deltas the stream has written so far
RECURSIVE Written(_)
Written(ms) ==
  IF ms = <<>> THEN 0
  ELSE (IF IsStreamMessage(Head(ms)) THEN Len(Head(ms).content) ELSE 0)
       + Written(Tail(ms))

WithinBounds(st, t) ==
  /\ NumLocal(st) <= MaxLocal
  /\ Len(st.paperSections) <= MaxSections
  /\ t <= MaxTimers
  /\ Written(st.messages) <= MaxContent
  /\ \A i \in 1..Len(st.messages) :
       Len(st.messages[i].toolCalls) <= MaxToolCalls

\* ------------------------------------------------------- stream events
KnownIds(st) == {st.messageIds[i] : i \in 1..Len(st.messageIds)}

EventIds(st) == KnownIds(st) \cup {FreshId(st)}

\* the agent tag the server sends with an id is stable for that id
AgentsFor(st, id, ses) ==
  IF MapHas(st.messages, id)
    THEN {getMessage(st, id).agent} \cap StreamAgents
    ELSE NewAgents(st, ses)

\* the text an agent writes: a section as plain text "A" or as the record
\* "{B}" = {"section_content":"B"}; an outline of one marked heading "#"
DeltasFor(agent) ==
  CASE agent = "paper_writer" -> {"A", "{B}"}
    [] agent = "outline_writer" -> {"#"}
    [] agent = "reporter" -> {"A"}
    [] OTHER -> {}

\* which message of the stream the id is: the next one when not stored
Ordinal(st, id) ==
  IF MapHas(st.messages, id)
    THEN Cardinality({i \in StreamAt(st) :
                        \E j \in i..Len(st.messages) : st.messages[j].id = id})
    ELSE NumStream(st) + 1

\* the deltas the server may send for the message id
DeltasOf(st, id, agent, ses) ==
  IF ses.cast = <<>> THEN DeltasFor(agent)
  ELSE IF Ordinal(st, id) \in 1..Len(ses.cast)
    THEN {ses.cast[Ordinal(st, id)].text} \ {NONE}
  ELSE {}

\* the agents that call tools
ToolsFor(agent) == IF agent = "researcher" THEN ToolCallIds ELSE {}

Ev(type, id, agent, tc, delta, fr) ==
  [type |-> type, id |-> id, agent |-> agent, tool_call_id |-> tc,
   delta |-> delta, finish_reason |-> fr]

\* the events the server may send for the message id, tagged agent
EventsOf(st, id, agent, ses) ==
  {Ev("start", id, agent, NONE, NONE, NONE)}
  \cup {Ev("content_delta", id, agent, NONE, d, NONE) :
          d \in DeltasOf(st, id, agent, ses)}
  \cup {Ev("tool_call_start", id, agent, tc, NONE, NONE) :
          tc \in ToolsFor(agent)}
  \cup {Ev("finish", id, agent, NONE, NONE, fr) : fr \in FinishReasons}

Events(st, ses) ==
  UNION {
    UNION {EventsOf(st, id, a, ses) : a \in AgentsFor(st, id, ses)}
    \cup {Ev("tool_call_result", id, NONE, tc, NONE, NONE) :
            tc \in ToolCallIds}
    : id \in EventIds(st)}

\* ------------------------------------------------------------------ Init
InitWith(sessions) ==
  /\ session \in sessions
  /\ variant = session.variant
  /\ store = InitStore
  /\ sending = FALSE
  /\ messageId = NULL
  /\ timers = 0
  /\ inflight = 0
  /\ podcasts = {}
  /\ fetchCalls = 0
  /\ overlapping = 0

Init == InitWith(AllSessions)

InitResearch == InitWith(ResearchSessions)

InitPaper == InitWith(PaperSessions)

InitGateway == InitWith(GatewaySessions)

InitStoreOps == InitWith(StoreSessions)

\* --------------------------------------------------------------- actions
\* setResponding(true), once the user message (if any) is appended
Started(w) ==
  /\ WithinBounds(w.st, w.timers)
  /\ store' = setResponding(w.st, TRUE)

\* sendMessage up to the loop: the user message (absent in replay), then
\* setResponding(true)
StartSend(hasContent) ==
  /\ ~sending
  /\ hasContent => "prompt" \in session.env
  /\ Started(IF hasContent
               THEN appendMessage(World(store, timers),
                      [LocalMessage(FreshId(store), "user", NONE, <<"q">>,
                                    FALSE)
                         EXCEPT !.contentChunks = <<"q">>],
                      variant)
               ELSE World(store, timers))
  /\ sending' = TRUE
  /\ messageId' = NULL
  /\ UNCHANGED <<variant, session, overlapping, timers, inflight, podcasts, fetchCalls>>

\* what one iteration of the loop leaves behind; an exception thrown by
\* the body is caught by sendMessage's own catch, in the same synchronous
\* step
Handled(w, id) ==
  /\ WithinBounds(w.st, w.timers)
  /\ timers' = w.timers
  /\ IF w.threw
       THEN /\ store' = FailurePath(w.st, id)
            /\ sending' = FALSE
            /\ messageId' = NULL
       ELSE /\ store' = w.st
            /\ sending' = TRUE
            /\ messageId' = id

\* one iteration of the loop
StreamEvent(e) ==
  /\ sending
  /\ Handled(HandleEvent(World(store, timers), e, variant), e.id)
  /\ UNCHANGED <<variant, session, overlapping, inflight, podcasts, fetchCalls>>

\* the stream ends normally: only the finally block runs
StreamEnd ==
  /\ sending
  /\ store' = setResponding(store, FALSE)
  /\ sending' = FALSE
  /\ messageId' = NULL
  /\ UNCHANGED <<variant, session, overlapping, timers, inflight, podcasts, fetchCalls>>

\* the transport fails or the response is aborted between two events
StreamFail ==
  /\ sending
  /\ "fail" \in session.env
  /\ store' = FailurePath(store, messageId)
  /\ sending' = FALSE
  /\ messageId' = NULL
  /\ UNCHANGED <<variant, session, overlapping, timers, inflight, podcasts, fetchCalls>>

\* ------------------------------------------- the debounced completion check
AllMessages(st) == st.messages

\* allMessages.find(outline_writer && !isStreaming): the first in Map order
OutlineMessage(st) ==
  LET ms == AllMessages(st)
      I == {i \in 1..Len(ms) :
              ms[i].agent = "outline_writer" /\ ~ms[i].isStreaming}
  IN IF I = {} THEN NoMsg ELSE ms[CHOOSE i \in I : \A j \in I : i <= j]

DefaultExpectedSections == 3
MinExpectedSections == 2
MaxExpectedSections == 8

expectedSections(st) ==
  LET o == OutlineMessage(st)
  IN IF o.id # NULL /\ o.content # <<>> /\ CountMarkers(o.content) > 0
       THEN Min(Max(CountMarkers(o.content), MinExpectedSections),
                MaxExpectedSections)
       ELSE DefaultExpectedSections

hasPaperWriters(st) ==
  \E i \in 1..Len(st.messages) : st.messages[i].agent = "paper_writer"

anyStreamingMessages(st) ==
  \E i \in 1..Len(st.messages) : st.messages[i].isStreaming

\* allMessages.filter(agent && isStreaming === streaming).length
CountOf(st, agent, streaming) ==
  Cardinality({i \in 1..Len(st.messages) :
                 /\ st.messages[i].agent = agent
                 /\ st.messages[i].isStreaming = streaming})

\* a predicate that trusts the state at scheduling time: the streaming
\* flags are not read again when the timer fires
shouldFetchRefsStale(st) ==
  /\ hasPaperWriters(st)
  /\ CountOf(st, "references_writer", FALSE) > 0
  /\ st.finalPaper = NONE

\* message-list-view.tsx: gated on the references_writer
shouldFetchRefs(st) ==
  /\ isPaperWritingWorkflow(st)
  /\ hasPaperWriters(st)
  /\ CountOf(st, "references_writer", TRUE) = 0
  /\ CountOf(st, "references_writer", FALSE) > 0
  /\ ~anyStreamingMessages(st)
  /\ st.finalPaper = NONE

\* store.ts: gated on the number of committed paper_writer messages
shouldFetchPaper(st) ==
  /\ isPaperWritingWorkflow(st)
  /\ hasPaperWriters(st)
  /\ CountOf(st, "paper_writer", TRUE) = 0
  /\ ~anyStreamingMessages(st)
  /\ CountOf(st, "paper_writer", FALSE) >= expectedSections(st)
  /\ st.finalPaper = NONE

shouldFetch(st, v) ==
  IF v = "refs" THEN shouldFetchRefs(st) ELSE shouldFetchPaper(st)

\* a start that leaves the error of an earlier fetch in place
fetchFinalPaperStartKeeping(st) ==
  [st EXCEPT !.finalPaperLoading = TRUE]

\* fetchFinalPaper up to its await
fetchFinalPaperStart(st) ==
  [st EXCEPT !.finalPaperLoading = TRUE, !.finalPaperError = NONE]

\* a resolution that is discarded
fetchFinalPaperOkDiscarded(st, body, v) == st

\* a resolution that stores the artifact and shows no card for it
fetchFinalPaperOkSilent(st, body, v) ==
  [st EXCEPT !.finalPaper = body, !.finalPaperLoading = FALSE]

\* fetchFinalPaper after a successful await; only message-list-view.tsx
\* appends the final_paper message, and only for a non-empty body
fetchFinalPaperOk(st, body, v) ==
  LET st1 == [st EXCEPT !.finalPaper = body, !.finalPaperLoading = FALSE]
  IN IF v = "refs" /\ body # ""
       THEN StoreAppendMessage(st1,
              [LocalMessage(FreshId(st1), "assistant", "final_paper",
                            <<"paper">>, FALSE)
                 EXCEPT !.contentChunks = <<body>>])
       ELSE st1

\* a catch block that also discards the artifact fetched before
fetchFinalPaperErrClearing(st) ==
  [st EXCEPT !.finalPaperError = "err", !.finalPaperLoading = FALSE,
             !.finalPaper = NONE]

\* fetchFinalPaper's catch block
fetchFinalPaperErr(st) ==
  [st EXCEPT !.finalPaperError = "err", !.finalPaperLoading = FALSE]

\* a debounce timer fires: the callback of checkAndFetchFinalPaper
TimerFire ==
  /\ timers > 0
  /\ timers' = timers - 1
  /\ IF shouldFetch(store, variant)
       THEN /\ inflight < MaxInflight
            /\ fetchCalls < MaxFetchCalls
            /\ store' = fetchFinalPaperStart(store)
            /\ inflight' = inflight + 1
            /\ fetchCalls' = fetchCalls + 1
       ELSE UNCHANGED <<store, inflight, fetchCalls>>
  /\ UNCHANGED <<variant, session, overlapping, sending, messageId, podcasts>>

FetchResolveOk(body) ==
  /\ inflight > 0
  /\ inflight' = inflight - 1
  /\ store' = fetchFinalPaperOk(store, body, variant)
  /\ WithinBounds(store', timers)
  /\ UNCHANGED <<variant, session, overlapping, sending, messageId, timers, podcasts, fetchCalls>>

FetchResolveErr ==
  /\ inflight > 0
  /\ inflight' = inflight - 1
  /\ store' = fetchFinalPaperErr(store)
  /\ UNCHANGED <<variant, session, overlapping, sending, messageId, timers, podcasts, fetchCalls>>

ClearFinalPaper ==
  /\ "clear" \in session.env
  /\ store' = clearFinalPaper(store)
  /\ fetchCalls' = 0
  /\ UNCHANGED <<variant, session, overlapping, sending, messageId, timers, inflight, podcasts>>

\* ------------------------------------------------------- research display
OpenResearch(researchId) ==
  /\ store' = openResearch(store, researchId)
  /\ UNCHANGED <<variant, session, overlapping, sending, messageId, timers, inflight, podcasts,
                 fetchCalls>>

CloseResearch ==
  /\ store' = closeResearch(store)
  /\ UNCHANGED <<variant, session, overlapping, sending, messageId, timers, inflight, podcasts,
                 fetchCalls>>

\* ------------------------------------------- the store's update operations
\* A caller of the store (a view) rewrites stored messages: the copy it
\* hands back is the stored message marked as interrupted.
Marked(m) == [m EXCEPT !.finishReason = "interrupt"]

\* the batches handed to updateMessages: one or two stored messages
Batches(st) ==
  {<<Marked(st.messages[i])>> : i \in 1..Len(st.messages)}
  \cup {<<Marked(st.messages[i]), Marked(st.messages[j])>> :
          i, j \in 1..Len(st.messages)}

\* useStore.getState().updateMessage(message)
UpdateMessage(m) ==
  /\ store' = StoreUpdateMessage(store, m)
  /\ UNCHANGED <<variant, session, overlapping, sending, messageId, timers, inflight, podcasts,
                 fetchCalls>>

\* useStore.getState().updateMessages(messages): one call of set
UpdateMessages(ms) ==
  /\ store' = StoreUpdateMessages(store, ms)
  /\ UNCHANGED <<variant, session, overlapping, sending, messageId, timers, inflight, podcasts,
                 fetchCalls>>

\* --------------------------------------------------------- listenToPodcast
\* the placeholder of the podcast, appended after the user's request
Listening(w, id) ==
  /\ WithinBounds(w.st, w.timers)
  /\ store' = w.st
  /\ podcasts' = podcasts \cup {id}

AskedPodcast(w) ==
  Listening(appendMessage(w,
              LocalMessage(FreshId(w.st), "assistant", "podcast",
                           <<"podcast">>, TRUE),
              variant),
            FreshId(w.st))

ListenToPodcast(researchId) ==
  /\ researchId \in DOMAIN store.researchPlanIds
  /\ researchId \in DOMAIN store.researchReportIds
  /\ getMessage(store, store.researchReportIds[researchId]).id # NULL
  /\ getMessage(store, store.researchReportIds[researchId]).content # <<>>
  /\ AskedPodcast(appendMessage(World(store, timers),
                    LocalMessage(FreshId(store), "user", NONE, <<"q">>,
                                 FALSE),
                    variant))
  /\ UNCHANGED <<variant, session, overlapping, sending, messageId, timers, inflight, fetchCalls>>

\* generatePodcast resolves (ok) or rejects: both overwrite the podcast
\* message with isStreaming false
PodcastResolve(id, ok) ==
  /\ id \in podcasts
  /\ podcasts' = podcasts \ {id}
  /\ store' = [store EXCEPT !.messages =
                 MapSet(@, [getMessage(store, id) EXCEPT
                              !.content = IF ok THEN <<"audio">>
                                          ELSE <<"error">>,
                              !.isStreaming = FALSE])]
  /\ UNCHANGED <<variant, session, overlapping, sending, messageId, timers, inflight, fetchCalls>>

\* ------------------------------------------------------------------ Next
Next ==
  \/ \E c \in BOOLEAN : StartSend(c)
  \/ \E e \in Events(store, session) : StreamEvent(e)
  \/ StreamEnd
  \/ StreamFail
  \/ TimerFire
  \/ \E b \in Bodies : FetchResolveOk(b)
  \/ FetchResolveErr
  \/ ClearFinalPaper
  \/ \E r \in KnownIds(store) : ListenToPodcast(r)
  \/ \E id \in podcasts, ok \in BOOLEAN : PodcastResolve(id, ok)

Spec == Init /\ [][Next]_vars

NextResearch ==
  \/ StartSend(FALSE)
  \/ \E e \in Events(store, session) : StreamEvent(e)
  \/ StreamEnd
  \/ StreamFail

SpecResearch == InitResearch /\ [][NextResearch]_vars

NextPaper ==
  \/ StartSend(FALSE)
  \/ \E e \in Events(store, session) : StreamEvent(e)
  \/ TimerFire
  \/ \E b \in Bodies : FetchResolveOk(b)
  \/ FetchResolveErr

SpecPaper == InitPaper /\ [][NextPaper]_vars

NextGateway ==
  \/ StartSend(FALSE)
  \/ \E e \in Events(store, session) : StreamEvent(e)
  \/ TimerFire
  \/ \E b \in Bodies : FetchResolveOk(b)
  \/ FetchResolveErr
  \/ ClearFinalPaper

SpecGateway == InitGateway /\ [][NextGateway]_vars

NextStoreOps ==
  \/ StartSend(FALSE)
  \/ \E e \in Events(store, session) : StreamEvent(e)
  \/ StreamEnd
  \/ \E ms \in Batches(store) : UpdateMessage(ms[1])
  \/ \E ms \in Batches(store) : UpdateMessages(ms)
  \/ \E r \in KnownIds(store) : OpenResearch(r)
  \/ CloseResearch

SpecStoreOps == InitStoreOps /\ [][NextStoreOps]_vars

\* the replay that opens a thread: sendMessage called on an empty store
FirstSend ==
  /\ store.messageIds = <<>>
  /\ StartSend(FALSE)

\* threads with a single response: every stored message was created by
\* the events of that response
NextOneResponse ==
  \/ FirstSend
  \/ \E e \in Events(store, session) : StreamEvent(e)
  \/ StreamEnd
  \/ StreamFail

SpecOneResponse == InitResearch /\ [][NextOneResponse]_vars

\* another sendMessage call starts while calls are in progress; its stream
\* delivers no event of its own before it ends
OverlapStart ==
  /\ overlapping < MaxOverlapping
  /\ overlapping' = overlapping + 1
  /\ store' = setResponding(store, TRUE)
  /\ UNCHANGED <<variant, session, sending, messageId, timers, inflight,
                 podcasts, fetchCalls>>

\* that call's stream ends: its finally block runs
OverlapEnd ==
  /\ overlapping > 0
  /\ overlapping' = overlapping - 1
  /\ store' = setResponding(store, FALSE)
  /\ UNCHANGED <<variant, session, sending, messageId, timers, inflight,
                 podcasts, fetchCalls>>

NextOverlap ==
  \/ StartSend(FALSE)
  \/ \E e \in Events(store, session) : StreamEvent(e)
  \/ StreamEnd
  \/ OverlapStart
  \/ OverlapEnd

SpecOverlap == InitStoreOps /\ [][NextOverlap]_vars

\* a pending fetch settles
FetchResolve ==
  \/ \E body \in Bodies : FetchResolveOk(body)
  \/ FetchResolveErr

\* The event loop runs every setTimeout callback that is due and every
\* promise settles; nothing obliges the server to send another event.
FairPaper ==
  /\ InitPaper
  /\ [][NextPaper]_vars
  /\ WF_vars(TimerFire)
  /\ WF_vars(FetchResolve)

\* ================================================================ claims
Committed(st, id) == MapHas(st.messages, id) /\ ~MapGet(st.messages, id).isStreaming

AgentOf(st, id) ==
  IF MapHas(st.messages, id) THEN MapGet(st.messages, id).agent ELSE NONE

\* some stored message records the tool call
HasOwner(st, toolCallId) ==
  \E i \in 1..Len(st.messages) : HasToolCall(st.messages[i], toolCallId)

\* the event is folded into the message keyed by its own id
UpdatesOwnId(st, e) ==
  e.type # "tool_call_result" \/ ~HasOwner(st, e.tool_call_id)

\* an outline_writer or paper_writer message exists in history
PaperHistory(st) ==
  \E i \in 1..Len(st.messages) :
    st.messages[i].agent \in {"outline_writer", "paper_writer"}

NoDuplicates(seq) ==
  \A i, j \in 1..Len(seq) : seq[i] = seq[j] => i = j

\* C1: while the final paper is not cleared, fetchFinalPaper is invoked at
\* most once per thread, whatever the interleaving of timer firings and
\* fetch resolutions.
C1_FetchAtMostOnce == fetchCalls <= 1

\* C2: a research is created only when none is ongoing: while one is
\* ongoing, researchIds does not grow and every newly stored message whose
\* agent is a research-activity tag is attached to the ongoing research.
C2_ResearchExclusive ==
  [][store.ongoingResearchId # NULL =>
       /\ store'.researchIds = store.researchIds
       /\ \A i \in 1..Len(store'.messages) :
            LET m == store'.messages[i]
            IN (~MapHas(store.messages, m.id) /\ InResearchTags(variant, m.agent))
                 => Includes(store'.researchActivityIds[store.ongoingResearchId],
                             m.id)]_vars

\* a second activity message has joined the one ongoing research
C2_Witness ==
  /\ store.ongoingResearchId # NULL
  /\ Len(store.researchIds) = 1
  /\ Len(store.researchActivityIds[store.ongoingResearchId]) >= 3

\* C3: the plan of every research is a stored planner message that comes
\* strictly before the research in messageIds, with no other planner
\* message between the two (the nearest one when the research was created).
C3_PlannerLinkage ==
  \A k \in 1..Len(store.researchIds) :
    LET r == store.researchIds[k]
    IN /\ r \in DOMAIN store.researchPlanIds
       /\ AgentOf(store, store.researchPlanIds[r]) = "planner"
       /\ \E i, j \in 1..Len(store.messageIds) :
            /\ i < j
            /\ store.messageIds[i] = store.researchPlanIds[r]
            /\ store.messageIds[j] = r
            /\ \A n \in (i + 1)..(j - 1) :
                 AgentOf(store, store.messageIds[n]) # "planner"

\* a research whose plan is the second of two planner messages before it
C3_Witness ==
  \E k \in 1..Len(store.researchIds) :
    \E i, j \in 1..Len(store.messageIds) :
      /\ i < j
      /\ AgentOf(store, store.messageIds[i]) = "planner"
      /\ store.messageIds[j] = store.researchPlanIds[store.researchIds[k]]

\* C4: when a committed reporter message goes through updateMessage while
\* a research is ongoing, ongoingResearchId becomes null if no
\* outline_writer or paper_writer message is stored and keeps its value
\* otherwise.
C4_ReporterCommit ==
  [][(/\ AgentOf(store', messageId') = "reporter"
      /\ Committed(store', messageId')
      /\ (store.ongoingResearchId # NULL \/ ~MapHas(store.messages, messageId'))
      /\ \E e \in Events(store, session) :
           e.id = messageId' /\ UpdatesOwnId(store, e) /\ StreamEvent(e))
     => store'.ongoingResearchId =
          IF PaperHistory(store')
            THEN (IF store.ongoingResearchId # NULL
                    THEN store.ongoingResearchId ELSE messageId')
            ELSE NULL]_vars

\* a reporter committed next to an outline and the research is still ongoing
C4_Witness ==
  /\ variant = "paper"
  /\ store.ongoingResearchId # NULL
  /\ \E i \in 1..Len(store.messages) :
       /\ store.messages[i].agent = "reporter"
       /\ store.messages[i].finishReason = "stop"
  /\ \E i \in 1..Len(store.messages) :
       store.messages[i].agent = "outline_writer"

\* C5: every commit of an outline_writer message makes it the paper outline
\* and empties paperSections, so sections written for an earlier outline do
\* not survive a later one.
C5_OutlineCommitResets ==
  [][(/\ AgentOf(store', messageId') = "outline_writer"
      /\ Committed(store', messageId')
      /\ \E e \in Events(store, session) :
           e.id = messageId' /\ UpdatesOwnId(store, e) /\ StreamEvent(e))
     => /\ store'.paperOutlineId = messageId'
        /\ store'.paperSections = <<>>]_vars

\* outline, section A, second outline, section B: only B is left
C5_Witness ==
  /\ store.paperSections = << <<"B">> >>
  /\ \E i, j \in 1..Len(store.messages) :
       /\ i < j
       /\ store.messages[i].agent = "paper_writer"
       /\ store.messages[i].content = <<"A">>
       /\ ~store.messages[i].isStreaming
       /\ store.messages[j].agent = "outline_writer"
       /\ ~store.messages[j].isStreaming
       /\ store.paperOutlineId = store.messages[j].id

\* C6: a stored message that has isStreaming = false keeps it in every
\* later state, whatever happens next to the thread.
C6_StreamingNeverReverts ==
  [][\A i \in 1..Len(store.messages) :
       (/\ ~store.messages[i].isStreaming
        /\ MapHas(store'.messages, store.messages[i].id))
       => ~MapGet(store'.messages, store.messages[i].id).isStreaming]_vars

\* a message finalised by the failure path has since received an event
C6_Witness ==
  /\ sending
  /\ AgentOf(store, messageId) \in StreamAgents
  /\ Committed(store, messageId)
  /\ MapGet(store.messages, messageId).finishReason = NONE

\* no planner message is stored for the research this event would start
LacksPlanner(st, e) ==
  /\ InResearchTags(variant, e.agent)
  /\ st.ongoingResearchId = NULL
  /\ \A i \in 1..Len(st.messages) : st.messages[i].agent # "planner"

\* C7 as stated: the first event that references an id not yet stored
\* appends that id, exactly once; every event for a stored id leaves
\* messageIds alone; messageIds holds no id twice.
C7_FirstEventAppends ==
  [][/\ NoDuplicates(store'.messageIds)
     /\ \A e \in Events(store, session) :
          (messageId' \in {e.id, NULL} /\ StreamEvent(e)) =>
            store'.messageIds =
              IF Includes(store.messageIds, e.id)
                THEN store.messageIds
                ELSE Append(store.messageIds, e.id)]_vars

\* C7: the first event for an id not yet stored appends that id exactly
\* once, unless it is a tool_call_result or it would start a research with
\* no planner message stored, in which case nothing is appended; every
\* event for a stored id leaves messageIds alone; messageIds holds no id
\* twice.
C7_AppendOnce ==
  [][/\ NoDuplicates(store'.messageIds)
     /\ \A e \in Events(store, session) :
          (messageId' \in {e.id, NULL} /\ StreamEvent(e)) =>
            store'.messageIds =
              IF \/ Includes(store.messageIds, e.id)
                 \/ e.type = "tool_call_result"
                 \/ LacksPlanner(store, e)
                THEN store.messageIds
                ELSE Append(store.messageIds, e.id)]_vars

\* a stored message has received a further event and is stored once
C7_Witness ==
  /\ sending
  /\ Len(store.messageIds) >= 2
  /\ \E i \in 1..Len(store.messages) :
       /\ store.messages[i].id = messageId
       /\ store.messages[i].toolCalls # <<>>
       /\ ~store.messages[i].isStreaming
  /\ Cardinality({j \in 1..Len(store.messageIds) :
                    store.messageIds[j] = messageId}) = 1

\* the event repeats a finish already folded into its message
RepeatsFinish(st, e) ==
  /\ e.type = "finish"
  /\ Committed(st, e.id)
  /\ MapGet(st.messages, e.id).finishReason = e.finish_reason

\* C8: a finish event delivered again for a message it has already
\* committed leaves the stored message as it was: not streaming, the same
\* finishReason, content, contentChunks and toolCalls.
C8_FinishIdempotent ==
  [][\A e \in Events(store, session) :
       (RepeatsFinish(store, e) /\ StreamEvent(e))
       => /\ MapGet(store'.messages, e.id) = MapGet(store.messages, e.id)
          /\ ~MapGet(store'.messages, e.id).isStreaming]_vars

\* the stream has just delivered a finish to a message that has text
C8_Witness ==
  /\ sending
  /\ Committed(store, messageId)
  /\ MapGet(store.messages, messageId).finishReason = "stop"
  /\ MapGet(store.messages, messageId).content # <<>>
  /\ MapGet(store.messages, messageId).contentChunks # <<>>

\* C9: a finish event delivered again for a committed message changes
\* none of paperSections, paperOutlineId and ongoingResearchId.
C9_DuplicateFinishNoOp ==
  [][\A e \in Events(store, session) :
       (RepeatsFinish(store, e) /\ StreamEvent(e))
       => /\ store'.paperSections = store.paperSections
          /\ store'.paperOutlineId = store.paperOutlineId
          /\ store'.ongoingResearchId = store.ongoingResearchId]_vars

\* the stored messages that record the tool call
Owners(st, toolCallId) ==
  {i \in 1..Len(st.messages) : HasToolCall(st.messages[i], toolCallId)}

WithResult(m, toolCallId) ==
  [m EXCEPT !.toolCalls =
     [k \in 1..Len(@) |->
        IF @[k].id = toolCallId THEN [@[k] EXCEPT !.result = "r"] ELSE @[k]]]

\* C10: a tool_call_result whose tool call is recorded on a stored message
\* is merged into that message wherever it stands in the store: the
\* owner's entry gets the result, no other entry changes and nothing is
\* appended under the event's own id.
C10_ResultToOwner ==
  [][\A e \in Events(store, session) :
       (/\ e.type = "tool_call_result"
        /\ messageId' = e.id
        /\ Cardinality(Owners(store, e.tool_call_id)) = 1
        /\ StreamEvent(e))
       => /\ store'.messageIds = store.messageIds
          /\ Len(store'.messages) = Len(store.messages)
          /\ \A i \in 1..Len(store.messages) :
               store'.messages[i] =
                 IF i \in Owners(store, e.tool_call_id)
                   THEN WithResult(store.messages[i], e.tool_call_id)
                   ELSE store.messages[i]]_vars

\* a result sent under an id of its own has reached a committed owner that
\* is not the newest message
C10_Witness ==
  /\ sending
  /\ messageId # NULL
  /\ ~MapHas(store.messages, messageId)
  /\ \E i \in 1..Len(store.messages) :
       /\ i < Len(store.messages)
       /\ ~store.messages[i].isStreaming
       /\ \E k \in 1..Len(store.messages[i].toolCalls) :
            store.messages[i].toolCalls[k].result = "r"

\* a tool_call_result carrying the event id, for a given tool call
ResultEvent(id, toolCallId) ==
  Ev("tool_call_result", id, NONE, toolCallId, NONE, NONE)

\* C11: a tool_call_result whose tool_call_id is recorded on no stored
\* message is dropped, whatever its own id: nothing is appended, no stored
\* message is modified and the handler has no other effect on the store or
\* on the pending timers.
C11_UnknownResultDropped ==
  [][\A id \in EventIds(store), tc \in ToolCallIds :
       (/\ ~HasOwner(store, tc)
        /\ StreamEvent(ResultEvent(id, tc)))
       => /\ store'.messageIds = store.messageIds
          /\ store'.messages = store.messages
          /\ store' = store
          /\ timers' = timers]_vars

\* C12: in the references-gated build a timer firing invokes
\* fetchFinalPaper only if, in the store it reads when it fires, a
\* paper_writer message exists, no references_writer message is streaming,
\* some references_writer message is not streaming, no message at all is
\* streaming and finalPaper is null; a firing that finds finalPaper present
\* changes nothing.
C12_RefsGate ==
  [][(variant = "refs" /\ timers' = timers - 1)
       => /\ fetchCalls' # fetchCalls
               => /\ hasPaperWriters(store)
                  /\ CountOf(store, "references_writer", TRUE) = 0
                  /\ CountOf(store, "references_writer", FALSE) > 0
                  /\ ~anyStreamingMessages(store)
                  /\ store.finalPaper = NONE
          /\ store.finalPaper # NONE
               => /\ store' = store
                  /\ inflight' = inflight
                  /\ fetchCalls' = fetchCalls]_vars

\* a fetch was invoked and has resolved, and a later timer is still to fire
C12_Witness ==
  /\ variant = "refs"
  /\ fetchCalls = 1
  /\ inflight = 0
  /\ store.finalPaper # NONE
  /\ timers > 0

\* the references-gated thread is complete and has no artifact
Settled ==
  /\ variant = "refs"
  /\ hasPaperWriters(store)
  /\ CountOf(store, "references_writer", FALSE) > 0
  /\ ~anyStreamingMessages(store)
  /\ store.finalPaper = NONE

\* C13: under fair timer firing, a references-gated thread that reaches and
\* then stays in a state with a paper_writer message, a committed
\* references_writer message, no streaming message and no final paper
\* eventually has fetchFinalPaper invoked, whichever message committed last.
C13_EventuallyFires == (<>[]Settled) => <>(fetchCalls > 0)

\* The ids of the messages the last consumed event was folded into, read
\* off the loop's state: the message stored under the event's id, or, when
\* that id is not stored (only a tool_call_result leaves it so), the owner
\* of the result's tool call.
InFlight(st, mid) ==
  IF mid = NULL THEN {}
  ELSE IF existsMessage(st, mid) THEN {mid}
  ELSE {findMessageByToolCallId(st, tc).id : tc \in ToolCallIds} \ {NULL}

\* C14: when the stream fails mid-response, sendMessage returns with the
\* message the last consumed event was folded into not streaming and its
\* finishReason as it was, responding false, ongoingResearchId null, and
\* the loop over that stream ended.
C14_FailureFinalises ==
  [][StreamFail
       => /\ \A id \in InFlight(store, messageId) :
               /\ ~getMessage(store', id).isStreaming
               /\ getMessage(store', id).finishReason
                    = getMessage(store, id).finishReason
          /\ ~store'.responding
          /\ store'.ongoingResearchId = NULL
          /\ ~sending']_vars

\* what a message has received so far
Received(m) ==
  [content |-> m.content, contentChunks |-> m.contentChunks,
   toolCalls |-> m.toolCalls]

\* C15: the failure path rolls nothing back: messageIds, researchIds, the
\* plan, activity and report maps, paperSections, paperOutlineId and the
\* content, contentChunks and toolCalls of every stored message are after
\* the failure handling what they were just before the failure.
C15_NoRollback ==
  [][StreamFail
       => /\ store'.messageIds = store.messageIds
          /\ store'.researchIds = store.researchIds
          /\ store'.researchPlanIds = store.researchPlanIds
          /\ store'.researchActivityIds = store.researchActivityIds
          /\ store'.researchReportIds = store.researchReportIds
          /\ store'.paperSections = store.paperSections
          /\ store'.paperOutlineId = store.paperOutlineId
          /\ Len(store'.messages) = Len(store.messages)
          /\ \A i \in 1..Len(store.messages) :
               /\ store'.messages[i].id = store.messages[i].id
               /\ Received(store'.messages[i]) = Received(store.messages[i])
     ]_vars

\* a failed stream has left a research whose last message keeps its partial
\* text: not streaming, no finishReason, content received
C15_Witness ==
  /\ ~sending
  /\ store.researchIds # <<>>
  /\ \E i \in 1..Len(store.messages) :
       /\ IsStreamMessage(store.messages[i])
       /\ ~store.messages[i].isStreaming
       /\ store.messages[i].finishReason = NONE
       /\ store.messages[i].content # <<>>

\* the first event of a research-activity message that would start a
\* research although no planner message is stored
StartsOrphan(st, e) ==
  /\ e.type # "tool_call_result"
  /\ ~existsMessage(st, e.id)
  /\ LacksPlanner(st, e)

\* C16: a research-activity message that arrives while no research is
\* ongoing and no planner message is stored makes the processing fail with
\* an error: sendMessage ends through its catch block, the message is not
\* stored, and researchIds, researchPlanIds, researchActivityIds,
\* researchReportIds and openResearchId are unchanged with
\* ongoingResearchId still null.
C16_MissingPlannerFails ==
  [][\A e \in Events(store, session) :
       (StartsOrphan(store, e) /\ StreamEvent(e))
       => /\ ~sending'
          /\ ~store'.responding
          /\ store'.messageIds = store.messageIds
          /\ store'.messages = store.messages
          /\ store'.researchIds = store.researchIds
          /\ store'.researchPlanIds = store.researchPlanIds
          /\ store'.researchActivityIds = store.researchActivityIds
          /\ store'.researchReportIds = store.researchReportIds
          /\ store'.openResearchId = store.openResearchId
          /\ store'.ongoingResearchId = NULL]_vars

\* the loop is about to receive a research-activity message with no
\* planner stored and no research ongoing
C16_Witness ==
  /\ sending
  /\ store.responding
  /\ store.ongoingResearchId = NULL
  /\ \E e \in Events(store, session) : StartsOrphan(store, e)

\* the synchronous start of fetchFinalPaper, called by a timer that fires
FetchStarts == timers' = timers - 1 /\ fetchCalls' = fetchCalls + 1

\* C17: when the service call fails, fetchFinalPaper ends with
\* finalPaperError set to an error text and finalPaperLoading false, and
\* neither its start nor its failure changes finalPaper, messageIds or
\* messages.
C17_FetchFailure ==
  [][/\ FetchResolveErr
          => /\ store'.finalPaperError # NONE
             /\ ~store'.finalPaperLoading
     /\ (FetchStarts \/ FetchResolveErr)
          => /\ store'.finalPaper = store.finalPaper
             /\ store'.messageIds = store.messageIds
             /\ store'.messages = store.messages]_vars

\* a fetch has failed while the artifact of an earlier fetch is kept
C17_Witness ==
  /\ store.finalPaperError # NONE
  /\ ~store.finalPaperLoading
  /\ store.finalPaper = "doc"
  /\ inflight = 0

Superseded == inflight > fetchCalls \/ inflight >= 2

C20_ClearFrame ==
  [][ClearFinalPaper
       => /\ store'.finalPaper = NONE
          /\ store'.finalPaperError = NONE
          /\ ~store'.finalPaperLoading
          /\ store' = [store EXCEPT !.finalPaper = store'.finalPaper,
                                    !.finalPaperError = store'.finalPaperError,
                                    !.finalPaperLoading =
                                       store'.finalPaperLoading]]_vars

\* the artifact was cleared and the injected final_paper message and the
\* sections are still there
C20_Witness ==
  /\ store.finalPaper = NONE
  /\ ~store.finalPaperLoading
  /\ store.paperSections # <<>>
  /\ \E i \in 1..Len(store.messages) :
       store.messages[i].agent = "final_paper"

\* the messages stored under the ids of the batch are those of the batch,
\* the last one given for an id winning, and every other entry is kept
Applied(old, new, ms) ==
  /\ Len(new) = Len(old)
  /\ \A i \in 1..Len(old) :
       /\ new[i].id = old[i].id
       /\ IF \E k \in 1..Len(ms) : ms[k].id = old[i].id
            THEN \E k \in 1..Len(ms) :
                   /\ new[i] = ms[k]
                   /\ \A n \in (k + 1)..Len(ms) : ms[n].id # ms[k].id
            ELSE new[i] = old[i]

\* C21: the store's updateMessage and updateMessages overwrite only the
\* entries keyed by the ids they are given: messageIds and every research,
\* paper and final-paper field are unchanged, and the state that follows
\* updateMessages holds the whole batch, there being no state in between.
C21_UpdateFrame ==
  [][\A ms \in Batches(store) :
       /\ UpdateMessage(ms[1])
            => /\ Applied(store.messages, store'.messages, <<ms[1]>>)
               /\ store' = [store EXCEPT !.messages = store'.messages]
       /\ UpdateMessages(ms)
            => /\ Applied(store.messages, store'.messages, ms)
               /\ store' = [store EXCEPT !.messages = store'.messages]]_vars

\* the plan and the report of a research have been marked while the
\* report was streaming
C21_Witness ==
  /\ Len(store.messages) = 2
  /\ store.researchIds # <<>>
  /\ store.messages[1].finishReason = "interrupt"
  /\ store.messages[2].finishReason = "interrupt"
  /\ store.messages[2].isStreaming

\* the research fields of the store
ResearchFields(st) ==
  <<st.researchIds, st.researchPlanIds, st.researchActivityIds,
    st.researchReportIds, st.ongoingResearchId, st.openResearchId>>

\* the first event of a research-activity message other than a reporter,
\* received with no research ongoing and a planner message stored
StartsResearch(st, e) ==
  /\ e.type # "tool_call_result"
  /\ ~existsMessage(st, e.id)
  /\ InResearchTags(variant, e.agent)
  /\ e.agent # "reporter"
  /\ st.ongoingResearchId = NULL
  /\ FindPlanner(st) # NULL

\* C22: when a research-activity message m other than a reporter starts a
\* research, with p the nearest planner message before it, then once m is
\* appended researchIds ends with m, researchPlanIds[m] = p,
\* researchActivityIds[m] = <<p, m>>, ongoingResearchId = m,
\* openResearchId = m and researchReportIds has no entry for m; a later
\* finish of m changes no research field.
C22_ResearchStart ==
  [][\A e \in Events(store, session) :
       /\ (/\ messageId' = e.id
           /\ StartsResearch(store, e)
           /\ StreamEvent(e))
            => /\ store'.researchIds = Append(store.researchIds, e.id)
               /\ e.id \in DOMAIN store'.researchPlanIds
               /\ store'.researchPlanIds[e.id] = FindPlanner(store)
               /\ store'.researchActivityIds[e.id]
                    = <<FindPlanner(store), e.id>>
               /\ store'.ongoingResearchId = e.id
               /\ store'.openResearchId = e.id
               /\ e.id \notin DOMAIN store'.researchReportIds
               /\ Includes(store'.messageIds, e.id)
       /\ (/\ messageId' = e.id
           /\ e.type = "finish"
           /\ Includes(store.researchIds, e.id)
           /\ AgentOf(store, e.id) # "reporter"
           /\ StreamEvent(e))
            => ResearchFields(store') = ResearchFields(store)]_vars

\* the message that started the ongoing research has finished and the
\* research is as it was created
C22_Witness ==
  /\ store.ongoingResearchId # NULL
  /\ Committed(store, store.ongoingResearchId)
  /\ AgentOf(store, store.ongoingResearchId) = "researcher"
  /\ store.researchIds[Len(store.researchIds)] = store.ongoingResearchId
  /\ store.researchActivityIds[store.ongoingResearchId]
       = <<store.researchPlanIds[store.ongoingResearchId],
           store.ongoingResearchId>>
  /\ store.openResearchId = store.ongoingResearchId
  /\ store.ongoingResearchId \notin DOMAIN store.researchReportIds

IsPrefix(a, b) ==
  /\ Len(a) <= Len(b)
  /\ \A i \in 1..Len(a) : a[i] = b[i]

\* C23: nothing is deleted: in every step messageIds and researchIds keep
\* what they held as a prefix, every id of messageIds has its message,
\* every research has its plan and its activity list, and no research id
\* is listed twice.
C23_NeverDeleted ==
  [][/\ IsPrefix(store.messageIds, store'.messageIds)
     /\ IsPrefix(store.researchIds, store'.researchIds)
     /\ \A i \in 1..Len(store'.messageIds) :
          MapHas(store'.messages, store'.messageIds[i])
     /\ \A k \in 1..Len(store'.researchIds) :
          /\ store'.researchIds[k] \in DOMAIN store'.researchPlanIds
          /\ store'.researchIds[k] \in DOMAIN store'.researchActivityIds
     /\ NoDuplicates(store'.researchIds)]_vars

\* a finished research is still listed, with its plan and its report,
\* after the thread has gone on to other messages
C23_Witness ==
  /\ store.ongoingResearchId = NULL
  /\ Len(store.researchIds) = 1
  /\ store.researchIds[1] \in DOMAIN store.researchReportIds
  /\ Len(store.messageIds)
       > Len(store.researchActivityIds[store.researchIds[1]]) + 1

\* C24: the final paper is a tri-state: at most one of finalPaperLoading,
\* finalPaperError non-null and finalPaper non-null holds in any state
\* reached through the fetches the completion check triggers.
C24_TriState ==
  /\ ~(store.finalPaperLoading /\ store.finalPaperError # NONE)
  /\ ~(store.finalPaperLoading /\ store.finalPaper # NONE)
  /\ ~(store.finalPaperError # NONE /\ store.finalPaper # NONE)

\* C25: while the stream is processed (the failure path apart),
\* ongoingResearchId goes from a research to null only when the message
\* updated is a reporter message that is not streaming, is listed in the
\* activity of that research, and no paper-writing message is stored; so a
\* reporter of an earlier, finished research never closes the current one.
C25_ClosedByOwnReporter ==
  [][(/\ sending /\ sending'
      /\ messageId' # NULL
      /\ store.ongoingResearchId # NULL
      /\ store'.ongoingResearchId = NULL)
       => /\ AgentOf(store', messageId') = "reporter"
          /\ Committed(store', messageId')
          /\ ~isPaperWritingWorkflow(store')
          /\ Includes(store'.researchActivityIds[store.ongoingResearchId],
                      messageId')]_vars

\* the fetch started by the completion check has stored the final paper
\* while a research of the paper-writing thread is ongoing
FetchedWhileOngoing ==
  /\ isPaperWritingWorkflow(store)
  /\ fetchCalls > 0
  /\ store.finalPaper # NONE
  /\ store.ongoingResearchId # NULL

\* C26: in a paper-writing thread, once the fetch triggered by the
\* completion check has succeeded, ongoingResearchId eventually becomes
\* null.
C26_PaperCloses == FetchedWhileOngoing ~> (store.ongoingResearchId = NULL)

\* C27: in each build, every event that is folded into a paper_writer or
\* references_writer message and leaves it not streaming schedules one
\* deferred evaluation of the completion check.
C27_CommitSchedules ==
  [][\A e \in Events(store, session) :
       (/\ messageId' = e.id
        /\ sending'
        /\ AgentOf(store', e.id) \in {"paper_writer", "references_writer"}
        /\ Committed(store', e.id)
        /\ UpdatesOwnId(store, e)
        /\ StreamEvent(e))
       => timers' = timers + 1]_vars

\* outline texts: empty, one marked heading, four marked headings
OutlineTexts == {<<>>, <<"#">>, <<"#", "#", "#", "#">>}

\* the store with the text of every outline_writer message replaced
WithOutline(st, text) ==
  [st EXCEPT !.messages =
     [i \in 1..Len(@) |->
        IF @[i].agent = "outline_writer"
          THEN [@[i] EXCEPT !.content = text] ELSE @[i]]]

\* C28: the decision of the completion check does not depend on the text
\* of the outline: a store and the same store with another outline text
\* lead to the same decision to invoke fetchFinalPaper, in each build.
C28_OutlineIrrelevant ==
  \A text \in OutlineTexts :
    shouldFetch(WithOutline(store, text), variant)
      = shouldFetch(store, variant)

\* the section a paper_writer text stands for: the field of the record
\* when the text is such a record, the whole text otherwise
SectionOf(content) ==
  IF parseJSON(content).section_content # <<>>
    THEN parseJSON(content).section_content
    ELSE content

\* C29: every event that is folded into a paper_writer message and leaves
\* it not streaming appends exactly one entry at the end of paperSections,
\* the section its text stands for, and raises no error.
C29_OneSectionPerCommit ==
  [][\A e \in Events(store, session) :
       (/\ messageId' \in {e.id, NULL}
        /\ AgentOf(store, e.id) = "paper_writer" \/ e.agent = "paper_writer"
        /\ UpdatesOwnId(store, e)
        /\ e.type = "finish" \/ Committed(store, e.id)
        /\ StreamEvent(e))
       => /\ sending'
          /\ store'.paperSections =
               Append(store.paperSections,
                      SectionOf(getMessage(store', e.id).content))]_vars

\* C30: attaching is idempotent: every activity list holds no id twice,
\* starts with the plan of its research followed by the research id, and
\* holds only ids that are in messageIds once the step has ended.
C30_ActivityLists ==
  \A r \in DOMAIN store.researchActivityIds :
    /\ NoDuplicates(store.researchActivityIds[r])
    /\ Len(store.researchActivityIds[r]) >= 2
    /\ store.researchActivityIds[r][1] = store.researchPlanIds[r]
    /\ store.researchActivityIds[r][2] = r
    /\ \A i \in 1..Len(store.researchActivityIds[r]) :
         Includes(store.messageIds, store.researchActivityIds[r][i])

\* a finished research lists its plan, the message that started it and
\* its report, each once
C30_Witness ==
  \E r \in DOMAIN store.researchReportIds :
    /\ store.ongoingResearchId = NULL
    /\ Len(store.researchActivityIds[r]) = 3
    /\ store.researchActivityIds[r][3] = store.researchReportIds[r]
    /\ Committed(store, r)

\* the research a message appended by the event e is attached to: the
\* ongoing one, or the one the message starts
ResearchOf(st, e) ==
  IF st.ongoingResearchId # NULL THEN st.ongoingResearchId ELSE e.id

ReportsListed(st) ==
  \A r \in DOMAIN st.researchReportIds :
    /\ getMessage(st, st.researchReportIds[r]).agent = "reporter"
    /\ r \in DOMAIN st.researchActivityIds
    /\ Includes(st.researchActivityIds[r], st.researchReportIds[r])

\* C31: a reporter message appended while research r is ongoing, or
\* starting r, becomes researchReportIds[r] whatever the entry held before;
\* every report entry names a reporter message listed in the activity of
\* its research.
C31_ReportLastWriter ==
  /\ []ReportsListed(store)
  /\ [][\A e \in Events(store, session) :
          (/\ e.agent = "reporter"
           /\ ~existsMessage(store, e.id)
           /\ StreamEvent(e)
           /\ existsMessage(store', e.id))
          => /\ ResearchOf(store, e) \in DOMAIN store'.researchReportIds
             /\ store'.researchReportIds[ResearchOf(store, e)] = e.id]_vars

\* a research whose report entry was overwritten by a second reporter
C31_Witness ==
  \E r \in DOMAIN store.researchReportIds :
    \E i \in 1..Len(store.researchActivityIds[r]) :
      /\ store.researchActivityIds[r][i] # store.researchReportIds[r]
      /\ AgentOf(store, store.researchActivityIds[r][i]) = "reporter"
      /\ i < Len(store.researchActivityIds[r])
      /\ store.researchActivityIds[r][Len(store.researchActivityIds[r])]
           = store.researchReportIds[r]

\* the last message of the ordered list, NoMsg when the list is empty
LastMessage(st) ==
  IF st.messageIds = <<>> THEN NoMsg
  ELSE getMessage(st, st.messageIds[Len(st.messageIds)])

\* C32: in message-list-view.tsx a fetch that succeeds with a non-empty
\* body appends exactly one message (agent final_paper, role assistant, not
\* streaming) at the end of messageIds and touches no research; with an
\* empty body finalPaper is stored and no message is appended.
C32_FinalMessageInjected ==
  [][\A body \in Bodies :
       (variant = "refs" /\ FetchResolveOk(body))
       => /\ store'.finalPaper = body
          /\ ResearchFields(store') = ResearchFields(store)
          /\ IsPrefix(store.messageIds, store'.messageIds)
          /\ IsPrefix(store.messages, store'.messages)
          /\ IF body = ""
               THEN /\ store'.messageIds = store.messageIds
                    /\ store'.messages = store.messages
               ELSE /\ Len(store'.messageIds) = Len(store.messageIds) + 1
                    /\ Len(store'.messages) = Len(store.messages) + 1
                    /\ ~existsMessage(store, LastMessage(store').id)
                    /\ LastMessage(store').agent = "final_paper"
                    /\ LastMessage(store').role = "assistant"
                    /\ ~LastMessage(store').isStreaming]_vars

\* the card of a fetched document closes the list and its research is
\* still the ongoing one
C32_Witness ==
  /\ variant = "refs"
  /\ store.messageIds # <<>>
  /\ LastMessage(store).agent = "final_paper"
  /\ store.finalPaper = "doc"
  /\ store.researchIds # <<>>

\* the positions of messageIds that hold a final_paper card
FinalPaperCards(st) ==
  {i \in 1..Len(st.messageIds) :
     AgentOf(st, st.messageIds[i]) = "final_paper"}

\* C33: in a thread where clearFinalPaper is never called, messageIds
\* holds at most one message whose agent is final_paper, however stream
\* events, debounce firings and fetch resolutions interleave.
C33_OneFinalPaperCard ==
  Cardinality(FinalPaperCards(store)) <= 1

\* the keys of the messages map, and the ids of the ordered list
MessageKeys(st) == {st.messages[i].id : i \in 1..Len(st.messages)}

ListedIds(st) == {st.messageIds[i] : i \in 1..Len(st.messageIds)}

\* C34: after every completed step (stream event, failure handling,
\* podcast step, injection of the final paper) the keys of the messages
\* map are exactly the ids listed in messageIds.
C34_MapMatchesList ==
  MessageKeys(store) = ListedIds(store)

\* a thread holding streamed messages, a user request and a podcast whose
\* generation has ended
C34_Witness ==
  /\ Cardinality(ListedIds(store)) >= 4
  /\ \E id \in ListedIds(store) :
       /\ AgentOf(store, id) = "podcast"
       /\ Committed(store, id)
  /\ podcasts = {}

\* C35: finalPaperLoading is true exactly while some fetchFinalPaper call
\* has not yet resolved, overlapping fetches included.
C35_LoadingWhilePending ==
  store.finalPaperLoading <=> inflight > 0

\* the stored messages that are still streaming
StillStreaming(st) ==
  {st.messages[i].id : i \in StreamAt(st)} \cap
  {st.messages[i].id : i \in {j \in 1..Len(st.messages) :
                                st.messages[j].isStreaming}}

\* C36: once sendMessage has returned through its failure path, no message
\* that received events from that response is still streaming, also when
\* the events of several messages were interleaved or the last event was a
\* tool_call_result.  (In a thread with one response every stored message
\* received its events from it.)
C36_FailureLeavesNoneStreaming ==
  [][StreamFail => StillStreaming(store') = {}]_vars

\* C37: responding is true whenever at least one sendMessage call is
\* still consuming its stream and false when none is, however the calls
\* interleave.
C37_RespondingWhileAnyStream ==
  store.responding <=> (sending \/ overlapping > 0)

\* a step of the loop that ends the ongoing research without failing
ClosesOngoing ==
  /\ store.ongoingResearchId # NULL
  /\ store'.ongoingResearchId = NULL
  /\ sending'
  /\ \E e \in Events(store, session) : StreamEvent(e)

\* C38: a reporter commit that closes the ongoing research changes
\* ongoingResearchId only: the research stays in researchIds with its plan,
\* activity and report entries and openResearchId is as before; openResearch
\* and closeResearch change openResearchId and nothing else.
C38_CloseKeepsHistory ==
  /\ [][ClosesOngoing
          => /\ store'.researchIds = store.researchIds
             /\ store'.researchPlanIds = store.researchPlanIds
             /\ store'.openResearchId = store.openResearchId
             /\ Includes(store'.researchIds, store.ongoingResearchId)
             /\ \A r \in DOMAIN store.researchReportIds :
                  r \in DOMAIN store'.researchReportIds
             /\ IsPrefix(store.researchActivityIds[store.ongoingResearchId],
                         store'.researchActivityIds[store.ongoingResearchId])
             /\ store'.messageIds = store.messageIds
                  => /\ store'.researchActivityIds = store.researchActivityIds
                     /\ store'.researchReportIds = store.researchReportIds]_vars
  /\ [][(CloseResearch \/ \E r \in KnownIds(store) : OpenResearch(r))
          => store = [store' EXCEPT !.openResearchId = store.openResearchId]]_vars

\* a research ended by its report while the response goes on, and folded
\* by the user afterwards
C38_Witness ==
  /\ sending
  /\ store.ongoingResearchId = NULL
  /\ store.openResearchId = NULL
  /\ \E r \in DOMAIN store.researchReportIds :
       /\ Committed(store, store.researchReportIds[r])
       /\ Includes(store.researchIds, r)

====
